---- MODULE Spec2Model ----
(***************************************************************************)
(* Model of the Wireshark Lua dissectors that gen_diss2.py generates from  *)
(* a DPI JSON description: the per-IP dissector (with DPI tests) and the   *)
(* static dissector (no DPI tests); and of the generator run that writes   *)
(* the files (GenSpec).                                                    *)
(*                                                                         *)
(* A behaviour fixes one FieldList (fields) and one packet (buffer) and    *)
(* then runs dissector invocations on it, one generated block of Lua per   *)
(* step: the prologue, one block per field in declaration order, the       *)
(* report.  pc is the position of the running invocation in the generated  *)
(* function; "returned" is a normal return, "error" is a Lua run-time     *)
(* error raised inside the function.                                       *)
(*                                                                         *)
(* Lua strings are sequences of character codes (ASCII), so that           *)
(* concatenation, tostring, table.sort and table.concat are computed and   *)
(* not assumed.  Lua values are records [t, n, s]: t is the Lua type,      *)
(* n the number (t = "number"), s the characters (t = "string").          *)
(***************************************************************************)
EXTENDS Integers, Sequences, FiniteSets, TLC

VARIABLES
  fields,          \* the FieldList both dissectors were generated from
  buffer,          \* the packet bytes handed to the dissector
  mode,            \* "dpi": per-IP dissector, "static": static dissector
  pc,              \* "idle", "fields", "report", "returned", "error"
  idx,             \* index in fields of the block about to run
  offset,          \* local offset
  dpi_error,       \* local dpi_error of the per-IP dissector
  error_messages,  \* local error_messages of the per-IP dissector
  parsed_values,   \* local parsed_values (per-IP) or field_values (static)
  locals,          \* the Lua locals named after the fields: name -> value
  expert,          \* messages added with add_expert_info, in order
  info,            \* pinfo.cols.info: [set, str]
  globals,         \* Lua global environment: [dpi_error], FALSE for nil
  reads,           \* the ranges buffer(offset, n) the invocation has taken
  prev,            \* what the invocation just before this one left, if it
                   \* was a per-IP one: <<Outcome>>, else <<>>
  dpi_data,        \* generator: the "dpi" object, a list of <<ip, fields>>
  files,           \* generator: OUTPUT_DIR, file name -> what was written
  gen_i            \* generator: index in dpi_data of the next loop iteration

\* the variables of the generator run
genvars == <<dpi_data, files, gen_i>>

\* the variables of the dissector invocations
runvars == <<fields, buffer, mode, pc, idx, offset, dpi_error, error_messages,
             parsed_values, locals, expert, info, globals, reads, prev>>

vars == <<fields, buffer, mode, pc, idx, offset, dpi_error, error_messages,
          parsed_values, locals, expert, info, globals, reads, prev,
          dpi_data, files, gen_i>>

----------------------------------------------------------------------------
(* Bounds of the model.                                                    *)

MaxFields == 2     \* longest generic FieldList
MaxBufLen == 3     \* longest generic packet

\* byte values the generic packets are built from
ByteAlphabet == {0, 1, 3, 7}

----------------------------------------------------------------------------
(* Strings as sequences of ASCII codes.                                    *)

\* the ASCII characters 32..126 in code order; a character no message
\* uses is written as its code ("x21" for code 33)
Printable ==
  <<" ", "x21", "x22", "x23", "x24", "x25", "x26", "x27", "x28", "x29",
    "x2A", "x2B", ",", "-", ".", "x2F", "0", "1", "2", "3", "4", "5", "6",
    "7", "8", "9", ":", ";", "x3C", "=", "x3E", "x3F", "x40", "A", "B",
    "C", "D", "E", "F", "G", "H", "I", "J", "K", "L", "M", "N", "O", "P",
    "Q", "R", "S", "T", "U", "V", "W", "X", "Y", "Z", "[", "x5C", "]",
    "x5E", "_", "x60", "a", "b", "c", "d", "e", "f", "g", "h", "i", "j",
    "k", "l", "m", "n", "o", "p", "q", "r", "s", "t", "u", "v", "w", "x",
    "y", "z", "x7B", "x7C", "x7D", "x7E">>

Code(c) == 31 + (CHOOSE i \in 1..Len(Printable) : Printable[i] = c)

\* a string literal, written as a tuple of characters
Str(t) == [i \in 1..Len(t) |-> Code(t[i])]

\* string comparison a < b of Lua (byte order)
RECURSIVE StrLess(_, _)
StrLess(a, b) ==
  IF b = <<>> THEN FALSE
  ELSE IF a = <<>> THEN TRUE
  ELSE IF Head(a) # Head(b) THEN Head(a) < Head(b)
  ELSE StrLess(Tail(a), Tail(b))

\* decimal digits of a natural number
RECURSIVE Digits(_)
Digits(n) ==
  IF n < 10 THEN <<48 + n>> ELSE Append(Digits(n \div 10), 48 + (n % 10))

----------------------------------------------------------------------------
(* Lua values.                                                             *)

\* A number is n + hi * 2^31 with hi in {0, 1}: hi = 1 holds the values
\* from 2^31 to 2^32 - 1 that a 4-byte uint() can return.
Nil        == [t |-> "nil",    n |-> 0, s |-> <<>>, hi |-> 0]
Number(k)  == [t |-> "number", n |-> k, s |-> <<>>, hi |-> 0]
String(cs) == [t |-> "string", n |-> 0, s |-> cs,   hi |-> 0]
UInt64(k)  == [t |-> "uint64", n |-> k, s |-> <<>>, hi |-> 0]
\* the outcome of an expression that raises a Lua error
Raise      == [t |-> "error",  n |-> 0, s |-> <<>>, hi |-> 0]
\* the number k + 2^31, 0 <= k < 2^31
NumberAbove(k) == [t |-> "number", n |-> k, s |-> <<>>, hi |-> 1]

\* decimal digits of k + 2^31 = k + 21474 * 10^5 + 83648, 0 <= k < 2^31
DigitsAbove(k) ==
  LET low == 83648 + (k % 100000)
      high == 21474 + (k \div 100000) + (low \div 100000)
  IN Digits(high) \o Tail(Digits(100000 + (low % 100000)))

\* tostring(v)
tostring(v) ==
  CASE v.t = "string" -> v.s
    [] v.t = "number" /\ v.hi = 1 -> DigitsAbove(v.n)
    [] v.t = "number" -> IF v.n < 0 THEN <<45>> \o Digits(-v.n) ELSE Digits(v.n)
    [] v.t = "uint64" -> Digits(v.n)
    [] OTHER          -> Str(<<"n", "i", "l">>)

\* t[k] = v on a Lua table held as a function
TableSet(t, k, v) == [x \in (DOMAIN t) \cup {k} |-> IF x = k THEN v ELSE t[x]]

EmptyTable == [x \in {} |-> Nil]

----------------------------------------------------------------------------
(* The messages the generated code builds.                                 *)

\* "Not enough bytes for "
S_NotEnoughBytesFor ==
  Str(<<"N", "o", "t", " ", "e", "n", "o", "u", "g", "h", " ", "b", "y",
      "t", "e", "s", " ", "f", "o", "r", " ">>)
\* "Bitfield "
S_Bitfield ==
  Str(<<"B", "i", "t", "f", "i", "e", "l", "d", " ">>)
\* " expected "
S_expected ==
  Str(<<" ", "e", "x", "p", "e", "c", "t", "e", "d", " ">>)
\* " bits set, got "
S_bitsSetGot ==
  Str(<<" ", "b", "i", "t", "s", " ", "s", "e", "t", ",", " ", "g", "o",
      "t", " ">>)
\* "Value out of range for "
S_ValueOutOfRangeFor ==
  Str(<<"V", "a", "l", "u", "e", " ", "o", "u", "t", " ", "o", "f", " ",
      "r", "a", "n", "g", "e", " ", "f", "o", "r", " ">>)
\* " out of range"
S_outOfRange ==
  Str(<<" ", "o", "u", "t", " ", "o", "f", " ", "r", "a", "n", "g", "e">>)
\* " length out of range"
S_lengthOutOfRange ==
  Str(<<" ", "l", "e", "n", "g", "t", "h", " ", "o", "u", "t", " ", "o",
      "f", " ", "r", "a", "n", "g", "e">>)
\* "[DPI Error: "
S_DPIErrorOpen ==
  Str(<<"[", "D", "P", "I", " ", "E", "r", "r", "o", "r", ":", " ">>)
\* "DPI Error in this packet"
S_DPIErrorInThisPacket ==
  Str(<<"D", "P", "I", " ", "E", "r", "r", "o", "r", " ", "i", "n", " ",
      "t", "h", "i", "s", " ", "p", "a", "c", "k", "e", "t">>)
\* "Static: "
S_Static ==
  Str(<<"S", "t", "a", "t", "i", "c", ":", " ">>)
\* "_bf"
S_bf ==
  Str(<<"_", "b", "f">>)

\* "Not enough bytes for <field_name>"
NotEnoughBytes(name) == S_NotEnoughBytesFor \o name

\* "Bitfield <field_name> expected <bitfields_count> bits set, got " ..
\* actual_bit_count
BitfieldMismatch(name, count, actual) ==
  S_Bitfield \o name \o S_expected \o Digits(count) \o S_bitsSetGot
    \o Digits(actual)

\* "<field_name> out of range"
OutOfRange(name) == name \o S_outOfRange

\* "<field_name> length out of range"
LengthOutOfRange(name) == name \o S_lengthOutOfRange

\* '<field_name>_bf' .. i
BfKey(name, i) == name \o S_bf \o Digits(i)

----------------------------------------------------------------------------
(* The DPI JSON: field declarations.  An optional property (JSON null or   *)
(* absent) is <<>>, a present one is <<v>>.                                *)

Field(name, ftype, min_size, max_size, dyn, size_field, minv, maxv, count) ==
  [name |-> name, field_type |-> ftype, min_size |-> min_size,
   max_size |-> max_size, is_dynamic_array |-> dyn,
   size_defining_field |-> size_field, min_value |-> minv,
   max_value |-> maxv, bitfields_count |-> count]

N_seq == Str(<<"s", "e", "q">>)
N_flags == Str(<<"f", "l", "a", "g", "s">>)
N_len == Str(<<"l", "e", "n">>)
N_payload == Str(<<"p", "a", "y", "l", "o", "a", "d">>)
N_id == Str(<<"i", "d">>)
N_data == Str(<<"d", "a", "t", "a">>)
N_tag == Str(<<"t", "a", "g">>)
N_val == Str(<<"v", "a", "l">>)
N_nib == Str(<<"n", "i", "b">>)
N_odd == Str(<<"o", "d", "d">>)
N_mask == Str(<<"m", "a", "s", "k">>)
N_blob == Str(<<"b", "l", "o", "b">>)
N_bits == Str(<<"b", "i", "t", "s">>)
N_stamp == Str(<<"s", "t", "a", "m", "p">>)
N_wide == Str(<<"w", "i", "d", "e">>)

\* fixed one-byte integer, no range: the usual size-defining field
F_len == Field(N_len, "int", 1, 1, FALSE, <<>>, <<>>, <<>>, <<>>)
\* fixed one-byte integer with a declared range
F_id == Field(N_id, "int", 1, 1, FALSE, <<>>, <<1>>, <<3>>, <<>>)
\* one-byte bitfield that must have three bits set
F_flags == Field(N_flags, "bitfield", 1, 1, FALSE, <<>>, <<>>, <<>>, <<3>>)
\* two-byte bitfield that must have one bit set
F_mask == Field(N_mask, "bitfield", 2, 2, FALSE, <<>>, <<>>, <<>>, <<1>>)
\* fixed one-byte text
F_tag == Field(N_tag, "char", 1, 1, FALSE, <<>>, <<>>, <<>>, <<>>)
\* dynamic text sized by len
F_data == Field(N_data, "char", 1, 1, TRUE, N_len, <<>>, <<>>, <<>>)
\* dynamic integer sized by len, with a declared range
F_val == Field(N_val, "int", 1, 2, TRUE, N_len, <<1>>, <<3>>, <<>>)
\* dynamic text sized by the text field tag
F_blob == Field(N_blob, "char", 1, 2, TRUE, N_tag, <<>>, <<>>, <<>>)
\* one-byte integer decomposed into two groups of four bits
F_nib == Field(N_nib, "int", 1, 1, FALSE, <<>>, <<>>, <<>>, <<2>>)
\* one-byte integer decomposed into three groups: 8 is not divisible by 3
F_odd == Field(N_odd, "int", 1, 1, FALSE, <<>>, <<>>, <<>>, <<3>>)

\* the declarations generic FieldLists are built from
FieldUniverse ==
  {F_len, F_id, F_flags, F_mask, F_data, F_val, F_nib, F_odd}

\* the FieldLists with the fixed text field tag: alone, after and before
\* an integer, and as the size-defining field of blob
TextFieldLists ==
  {<<F_tag>>, <<F_len, F_tag>>, <<F_tag, F_id>>, <<F_tag, F_blob>>}

\* Scenario A/B: seq (int, 2 bytes, 0..65535), flags (bitfield, 3 bits set)
F_seq == Field(N_seq, "int", 2, 2, FALSE, <<>>, <<0>>, <<65535>>, <<>>)
ScenarioAFields == <<F_seq, F_flags>>
ScenarioABuffer == <<0, 5, 7>>
ScenarioBBuffer == <<0, 5, 3>>
\* the same FieldList on packets that end inside seq and before flags
ShortBuffers == {<<0>>, <<0, 5>>}

\* Scenario C: len (int, 1 byte), payload (dynamic char sized by len, 1..10)
F_payload == Field(N_payload, "char", 1, 10, TRUE, N_len, <<>>, <<>>, <<>>)
ScenarioCFields == <<F_len, F_payload>>
ScenarioCBuffer == <<3, 97, 98, 99>>

\* a bitfield declared as a dynamic array sized by len
F_bits == Field(N_bits, "bitfield", 1, 2, TRUE, N_len, <<>>, <<>>, <<1>>)
DynamicBitfieldFields == <<F_len, F_bits>>
\* packets whose first byte is a length of 2, for the dynamic fields
LengthTwoBuffers == {<<2, 1>>, <<2, 0, 1>>, <<2, 7, 7>>}

\* a four-byte long
F_stamp == Field(N_stamp, "long", 4, 4, FALSE, <<>>, <<>>, <<>>, <<>>)
LongFields == <<F_stamp>>
\* an eight-byte long, on a packet that holds 256
F_wide == Field(N_wide, "long", 8, 8, FALSE, <<>>, <<>>, <<>>, <<>>)
WideFields == <<F_wide>>
WideBuffer == <<0, 0, 0, 0, 0, 0, 1, 0>>
\* 2^32 - 1, 2^31, 2^31 - 1, 1, and a packet that ends inside the field
LongBuffers ==
  {<<255, 255, 255, 255>>, <<128, 0, 0, 0>>, <<127, 255, 255, 255>>,
   <<0, 0, 0, 1>>, <<255, 255>>}

\* the ProtoField type the generator declares for a field
ProtoFieldType(f) ==
  LET by_size == CASE f.min_size = 1 -> "uint8"
                   [] f.min_size = 2 -> "uint16"
                   [] f.min_size = 4 -> "uint32"
                   [] f.min_size = 8 -> "uint64"
                   [] OTHER -> "uint32"
  IN CASE f.field_type = "bool" -> "uint8"
       [] f.field_type = "int" -> by_size
       [] f.field_type = "float" -> "float"
       [] f.field_type = "double" -> "double"
       [] f.field_type = "long" ->
            IF f.min_size = 8 THEN "uint64" ELSE "int32"
       [] f.field_type = "char" -> "string"
       [] f.field_type = "bitfield" -> by_size
       [] OTHER -> "string"

\* a JSON object has no two members of the same name
DistinctNames(fs) ==
  \A i, j \in 1..Len(fs) : i # j => fs[i].name # fs[j].name

\* the generic FieldLists: 1..MaxFields declarations of FieldUniverse
FieldLists ==
  {fs \in UNION {[1..n -> FieldUniverse] : n \in 1..MaxFields} :
     DistinctNames(fs)}

\* the generic packets: up to MaxBufLen bytes of ByteAlphabet
Buffers == UNION {[1..n -> ByteAlphabet] : n \in 0..MaxBufLen}

----------------------------------------------------------------------------
(* The host API and the Lua library, as far as the generated code uses     *)
(* them.  Bitfields and decomposed fields are at most 3 bytes wide, so     *)
(* the bit library never sees a number of 2^31 or more; the only 4-byte    *)
(* field is the long of LongFields.                                        *)

\* buffer(offset, length): the bytes of the range
TvbRange(off, length) == SubSeq(buffer, off + 1, off + length)

\* buffer(offset, length) raises "Range is out of bounds" when the range
\* does not lie in the buffer
TvbRangeRaises(off, length) == off + length > Len(buffer)

\* big-endian (network order) value of a byte string
RECURSIVE BigEndian(_)
BigEndian(bytes) ==
  IF bytes = <<>> THEN 0
  ELSE BigEndian(SubSeq(bytes, 1, Len(bytes) - 1)) * 256 + bytes[Len(bytes)]

\* range:uint(): a Lua number; the range must be 1 to 4 bytes long,
\* any other length raises
TvbRange_uint(bytes) ==
  IF Len(bytes) \notin 1..4 THEN Raise
  ELSE IF Len(bytes) = 4 /\ bytes[1] >= 128
  THEN NumberAbove(BigEndian(<<bytes[1] - 128>> \o Tail(bytes)))
  ELSE Number(BigEndian(bytes))

\* range:uint64(): a UInt64 userdata; the range must be 1 to 8 bytes long
TvbRange_uint64(bytes) ==
  IF Len(bytes) \in 1..8 THEN UInt64(BigEndian(bytes)) ELSE Raise

\* range:string(): the bytes of the range up to the first NUL
RECURSIVE UpToNul(_)
UpToNul(bytes) ==
  IF bytes = <<>> \/ Head(bytes) = 0 THEN <<>>
  ELSE <<Head(bytes)>> \o UpToNul(Tail(bytes))

TvbRange_string(bytes) == String(UpToNul(bytes))

\* the extraction the generator emits for a non-bitfield field over the
\* bytes of its range.  The model's FieldLists hold no float or double
\* field (string.unpack of an IEEE value is not modelled).
Extract(f, off, length) ==
  IF TvbRangeRaises(off, length) THEN Raise
  ELSE IF f.field_type \in {"int", "bool", "long"}
  THEN IF f.min_size = 8 THEN TvbRange_uint64(TvbRange(off, length))
       ELSE TvbRange_uint(TvbRange(off, length))
  ELSE TvbRange_string(TvbRange(off, length))

\* the extraction the generator emits for a bitfield: uint64() when
\* min_size is 8, else uint()
ExtractUnsigned(f, off, length) ==
  IF TvbRangeRaises(off, length) THEN Raise
  ELSE IF f.min_size = 8 THEN TvbRange_uint64(TvbRange(off, length))
  ELSE TvbRange_uint(TvbRange(off, length))

\* popcount(x): while x > 0 do count = count + (x % 2); x = floor(x / 2)
RECURSIVE popcount(_)
popcount(x) == IF x > 0 THEN (x % 2) + popcount(x \div 2) ELSE 0

\* bit.band(bit.rshift(num, i), 1)
BitAt(num, i) == (num \div (2 ^ i)) % 2

\* to_binary_str with the loop running upwards: least significant bit first
to_binary_str_LsbFirst(num, bits) ==
  [k \in 1..bits |-> IF BitAt(num, k - 1) = 1 THEN 49 ELSE 48]

\* to_binary_str(num, bits): for i = bits - 1, 0, -1 append "1" or "0"
to_binary_str(num, bits) ==
  [k \in 1..bits |-> IF BitAt(num, bits - k) = 1 THEN 49 ELSE 48]

\* bf_value of group i: bit.band(bit.rshift(value, shift), mask) with
\* shift = (count - 1 - i) * bits_per_field, mask = (1 << bits_per_field) - 1
BfValue(value, count, bits_per_field, i) ==
  (value \div (2 ^ ((count - 1 - i) * bits_per_field))) % (2 ^ bits_per_field)

\* The decomposition loop over a table: bits_per_field = total_bits / count
\* is a float division, and 1 << bits_per_field raises when it has no
\* integer representation; bit.rshift raises on a value that is no number.
\* The result is the table with the count entries stored, or Raise.
DecomposeRaises(v, total_bits, count) ==
  \/ total_bits % count # 0
  \/ v.t # "number"

Decompose(table, name, v, total_bits, count) ==
  LET bits_per_field == total_bits \div count
  IN [x \in (DOMAIN table) \cup {BfKey(name, i) : i \in 0..(count - 1)} |->
        IF \E i \in 0..(count - 1) : x = BfKey(name, i)
        THEN LET i == CHOOSE j \in 0..(count - 1) : x = BfKey(name, j)
             IN Number(BfValue(v.n, count, bits_per_field, i))
        ELSE table[x]]

\* bitfields_count is not None and bitfields_count (Python truthiness)
HasDecomposition(f) ==
  f.bitfields_count # <<>> /\ f.bitfields_count[1] # 0

\* the generator emits the range check: numeric type, min_value and
\* max_value both present
HasRangeCheck(f) ==
  /\ f.field_type \in {"int", "bool", "long", "float", "double"}
  /\ f.min_value # <<>>
  /\ f.max_value # <<>>

\* if value < min_val or value > max_val; a number of 2^31 or more is
\* above every max_val the model holds
ValueOutOfRange(value, min_val, max_val) ==
  value.hi = 1 \/ value.n < min_val \/ value.n > max_val

\* if dynamic_length < min_size or dynamic_length > max_size
DynamicLengthOutOfRange(dynamic_length, min_size, max_size) ==
  dynamic_length < min_size \/ dynamic_length > max_size

\* the bounds check without the length
InsufficientBytes_OffsetOnly(off, length) == Len(buffer) < off

\* if buffer:len() < offset + length
InsufficientBytes(off, length) == Len(buffer) < off + length

\* the value of the Lua name size_field where a dynamic block reads it:
\* the local declared by an earlier block, else the global, else nil
SizeFieldValue(size_field) ==
  IF size_field \in DOMAIN locals THEN locals[size_field] ELSE Nil

\* k .. "=" .. tostring(v) for every pair of the table
Parts(table) == {k \o <<61>> \o tostring(table[k]) : k \in DOMAIN table}

\* table.sort with the comparison reversed: descending
RECURSIVE SortStrings_Descending(_)
SortStrings_Descending(S) ==
  IF S = {} THEN <<>>
  ELSE LET m == CHOOSE x \in S : \A y \in S \ {x} : StrLess(y, x)
       IN <<m>> \o SortStrings_Descending(S \ {m})

\* table.sort(parts): ascending by the string order
RECURSIVE SortStrings(_)
SortStrings(S) ==
  IF S = {} THEN <<>>
  ELSE LET m == CHOOSE x \in S : \A y \in S \ {x} : StrLess(x, y)
       IN <<m>> \o SortStrings(S \ {m})

\* table.concat(list, sep)
RECURSIVE Concat(_, _)
Concat(list, sep) ==
  IF list = <<>> THEN <<>>
  ELSE IF Len(list) = 1 THEN list[1]
  ELSE list[1] \o sep \o Concat(Tail(list), sep)

\* "[DPI Error: " .. table.concat(error_messages, "; ") .. "]"
ErrorReport(msgs) == S_DPIErrorOpen \o Concat(msgs, <<59, 32>>) \o <<93>>

\* table.concat(sorted parts, ", ")
Summary(table) == Concat(SortStrings(Parts(table)), <<44, 32>>)

----------------------------------------------------------------------------
(* Steps shared by the blocks.                                             *)

\* a Lua error is raised inside the dissector function: the invocation
\* ends there, without a report
LuaError ==
  /\ pc' = "error"
  /\ UNCHANGED <<fields, buffer, mode, idx, offset, dpi_error,
                 error_messages, parsed_values, locals, expert, info>>

\* the offset left where it is
AdvanceOffset_Stuck(length) == offset

\* offset = offset + length
AdvanceOffset(length) == offset + length

\* the flag set without the message
RecordError_FlagOnly(cond, msg) ==
  /\ dpi_error' = (dpi_error \/ cond)
  /\ error_messages' = error_messages

\* if cond then dpi_error = true; table.insert(error_messages, msg) end
RecordError(cond, msg) ==
  /\ dpi_error' = (dpi_error \/ cond)
  /\ error_messages' = IF cond THEN Append(error_messages, msg)
                       ELSE error_messages

\* buffer(offset, length) is taken: the range joins reads
TakeRange(off, length) ==
  reads' = Append(reads, [offset |-> off, length |-> length])

\* the generated "return" in the middle of the function
ReturnEarly ==
  /\ pc' = "returned"
  /\ UNCHANGED <<fields, buffer, mode, idx, offset, parsed_values, locals,
                 info, globals, reads>>

\* control jumps over the block that follows
NextBlock_Skip ==
  /\ idx' = idx + 2
  /\ pc' = IF idx + 1 >= Len(fields) THEN "report" ELSE "fields"
  /\ UNCHANGED <<fields, buffer, mode, info>>

\* control falls through to the next generated block
NextBlock ==
  /\ idx' = idx + 1
  /\ pc' = IF idx = Len(fields) THEN "report" ELSE "fields"
  /\ UNCHANGED <<fields, buffer, mode, info>>

\* what a finished invocation leaves behind for an observer: how it ended
\* and at which block, the ranges it took and its accumulators
Outcome ==
  [pc |-> pc, idx |-> idx, offset |-> offset,
   error_messages |-> error_messages, parsed_values |-> parsed_values,
   reads |-> reads]

\* the prologue of a dissector function: return on an empty buffer, else
\* fresh locals
Prologue(m) ==
  /\ pc \in {"idle", "returned", "error"}
  /\ mode' = m
  /\ pc' = IF Len(buffer) = 0 THEN "returned" ELSE "fields"
  /\ idx' = 1
  /\ offset' = 0
  /\ dpi_error' = FALSE
  /\ error_messages' = <<>>
  /\ parsed_values' = EmptyTable
  /\ locals' = EmptyTable
  /\ expert' = <<>>
  /\ info' = [set |-> FALSE, str |-> <<>>]
  /\ reads' = <<>>
  /\ prev' = IF pc # "idle" /\ mode = "dpi" THEN <<Outcome>> ELSE <<>>
  /\ UNCHANGED <<fields, buffer, globals, genvars>>

----------------------------------------------------------------------------
(* 1. The per-IP dissector (with DPI tests).                               *)

PerIP_Call == Prologue("dpi")

\* field_type == "bitfield"
PerIP_Bitfield ==
  /\ pc = "fields" /\ mode = "dpi"
  /\ UNCHANGED <<genvars, prev>>
  /\ fields[idx].field_type = "bitfield"
  /\ LET f == fields[idx]
         raw == ExtractUnsigned(f, offset, f.min_size)
         actual_bit_count == popcount(raw.n)
         mismatch == actual_bit_count # f.bitfields_count[1]
         msg == BitfieldMismatch(f.name, f.bitfields_count[1],
                                 actual_bit_count)
     IN IF InsufficientBytes(offset, f.min_size)
        THEN /\ expert' = Append(expert, NotEnoughBytes(f.name))
             /\ dpi_error' = TRUE
             /\ error_messages' =
                  Append(error_messages, NotEnoughBytes(f.name))
             /\ ReturnEarly
        ELSE IF raw.t # "number"
        THEN \* popcount and to_binary_str need a Lua number
             LuaError /\ TakeRange(offset, f.min_size) /\ UNCHANGED globals
        ELSE /\ TakeRange(offset, f.min_size)
             /\ expert' = IF mismatch THEN Append(expert, msg) ELSE expert
             /\ RecordError(mismatch, msg)
             /\ locals' = TableSet(locals, f.name, raw)
             /\ parsed_values' =
                  TableSet(parsed_values, f.name,
                           String(to_binary_str(raw.n, f.min_size * 8)))
             /\ offset' = AdvanceOffset(f.min_size)
             /\ NextBlock
             /\ UNCHANGED globals

\* not a bitfield, not is_dynamic_array
PerIP_Fixed ==
  /\ pc = "fields" /\ mode = "dpi"
  /\ UNCHANGED <<genvars, prev>>
  /\ fields[idx].field_type # "bitfield"
  /\ ~fields[idx].is_dynamic_array
  /\ LET f == fields[idx]
         v == Extract(f, offset, f.min_size)
         bad == /\ HasRangeCheck(f)
                /\ ValueOutOfRange(v, f.min_value[1], f.max_value[1])
         stored == TableSet(parsed_values, f.name, v)
     IN IF InsufficientBytes(offset, f.min_size)
        THEN /\ expert' = Append(expert, NotEnoughBytes(f.name))
             /\ UNCHANGED <<dpi_error, error_messages>>
             /\ ReturnEarly
        ELSE IF v.t = "error"
        THEN LuaError /\ TakeRange(offset, f.min_size) /\ UNCHANGED globals
        ELSE /\ TakeRange(offset, f.min_size)
             /\ locals' = TableSet(locals, f.name, v)
             /\ expert' = IF bad
                          THEN Append(expert, S_ValueOutOfRangeFor \o f.name)
                          ELSE expert
             /\ RecordError(bad, OutOfRange(f.name))
             /\ offset' = AdvanceOffset(f.min_size)
             /\ UNCHANGED globals
             /\ IF ~HasDecomposition(f)
                THEN parsed_values' = stored /\ NextBlock
                ELSE IF DecomposeRaises(v, f.min_size * 8,
                                        f.bitfields_count[1])
                THEN /\ parsed_values' = stored
                     /\ pc' = "error"
                     /\ UNCHANGED <<fields, buffer, mode, idx, info>>
                ELSE /\ parsed_values' =
                          Decompose(stored, f.name, v, f.min_size * 8,
                                    f.bitfields_count[1])
                     /\ NextBlock

\* is_dynamic_array
PerIP_Dynamic ==
  /\ pc = "fields" /\ mode = "dpi"
  /\ UNCHANGED <<genvars, prev>>
  /\ fields[idx].field_type # "bitfield"
  /\ fields[idx].is_dynamic_array
  /\ LET f == fields[idx]
         dynamic_length == SizeFieldValue(f.size_defining_field)
         len_bad == DynamicLengthOutOfRange(dynamic_length.n, f.min_size,
                                            f.max_size)
         short == InsufficientBytes(offset, dynamic_length.n)
         expert1 == IF len_bad
                    THEN Append(expert, LengthOutOfRange(f.name)) ELSE expert
         errors1 == IF len_bad
                    THEN Append(error_messages, LengthOutOfRange(f.name))
                    ELSE error_messages
         v == Extract(f, offset, dynamic_length.n)
         stored == TableSet(parsed_values, f.name, v)
     IN IF dynamic_length.t # "number"
        THEN \* comparing nil or a string with a number raises
             LuaError /\ UNCHANGED <<globals, reads>>
        ELSE IF short
        THEN /\ expert' = Append(expert1, NotEnoughBytes(f.name))
             /\ dpi_error' = TRUE
             /\ error_messages' = Append(errors1, NotEnoughBytes(f.name))
             /\ ReturnEarly
        ELSE /\ TakeRange(offset, dynamic_length.n)
             /\ expert' = expert1
             /\ RecordError(len_bad, LengthOutOfRange(f.name))
             /\ UNCHANGED globals
             /\ IF v.t = "error"
                THEN /\ pc' = "error"
                     /\ UNCHANGED <<fields, buffer, mode, idx, info, offset,
                                    parsed_values, locals>>
                ELSE /\ locals' = TableSet(locals, f.name, v)
                     /\ offset' = AdvanceOffset(dynamic_length.n)
                     /\ IF ~HasDecomposition(f)
                        THEN parsed_values' = stored /\ NextBlock
                        ELSE IF DecomposeRaises(v, dynamic_length.n * 8,
                                                f.bitfields_count[1])
                        THEN /\ parsed_values' = stored
                             /\ pc' = "error"
                             /\ UNCHANGED <<fields, buffer, mode, idx, info>>
                        ELSE /\ parsed_values' =
                                  Decompose(stored, f.name, v,
                                            dynamic_length.n * 8,
                                            f.bitfields_count[1])
                             /\ NextBlock

\* the report: the Info column
PerIP_Report ==
  /\ pc = "report" /\ mode = "dpi"
  /\ UNCHANGED <<genvars, prev, reads>>
  /\ IF dpi_error
     THEN /\ info' = [set |-> TRUE, str |-> ErrorReport(error_messages)]
          /\ expert' = Append(expert, S_DPIErrorInThisPacket)
     ELSE /\ info' = [set |-> TRUE, str |-> Summary(parsed_values)]
          /\ expert' = expert
  /\ pc' = "returned"
  /\ UNCHANGED <<fields, buffer, mode, idx, offset, dpi_error,
                 error_messages, parsed_values, locals, globals>>

----------------------------------------------------------------------------
(* 2. The static dissector (no DPI tests).  It declares no dpi_error and   *)
(* no error_messages: in its dynamic block both names are globals.         *)

Static_Call == Prologue("static")

\* field_type == "bitfield"
Static_Bitfield ==
  /\ pc = "fields" /\ mode = "static"
  /\ UNCHANGED <<genvars, prev>>
  /\ fields[idx].field_type = "bitfield"
  /\ LET f == fields[idx]
         raw == ExtractUnsigned(f, offset, f.min_size)
         actual_bit_count == popcount(raw.n)
         mismatch == actual_bit_count # f.bitfields_count[1]
         msg == BitfieldMismatch(f.name, f.bitfields_count[1],
                                 actual_bit_count)
     IN IF InsufficientBytes(offset, f.min_size)
        THEN /\ expert' = Append(expert, NotEnoughBytes(f.name))
             /\ UNCHANGED <<dpi_error, error_messages>>
             /\ ReturnEarly
        ELSE IF raw.t # "number"
        THEN LuaError /\ TakeRange(offset, f.min_size) /\ UNCHANGED globals
        ELSE /\ TakeRange(offset, f.min_size)
             /\ expert' = IF mismatch THEN Append(expert, msg) ELSE expert
             /\ locals' = TableSet(locals, f.name, raw)
             /\ parsed_values' =
                  TableSet(parsed_values, f.name,
                           String(to_binary_str(raw.n, f.min_size * 8)))
             /\ offset' = AdvanceOffset(f.min_size)
             /\ NextBlock
             /\ UNCHANGED <<dpi_error, error_messages, globals>>

\* not a bitfield, not is_dynamic_array
Static_Fixed ==
  /\ pc = "fields" /\ mode = "static"
  /\ UNCHANGED <<genvars, prev>>
  /\ fields[idx].field_type # "bitfield"
  /\ ~fields[idx].is_dynamic_array
  /\ LET f == fields[idx]
         v == Extract(f, offset, f.min_size)
         stored == TableSet(parsed_values, f.name, v)
     IN IF InsufficientBytes(offset, f.min_size)
        THEN /\ expert' = Append(expert, NotEnoughBytes(f.name))
             /\ UNCHANGED <<dpi_error, error_messages>>
             /\ ReturnEarly
        ELSE IF v.t = "error"
        THEN LuaError /\ TakeRange(offset, f.min_size) /\ UNCHANGED globals
        ELSE /\ TakeRange(offset, f.min_size)
             /\ locals' = TableSet(locals, f.name, v)
             /\ offset' = AdvanceOffset(f.min_size)
             /\ UNCHANGED <<expert, dpi_error, error_messages, globals>>
             /\ IF ~HasDecomposition(f)
                THEN parsed_values' = stored /\ NextBlock
                ELSE IF DecomposeRaises(v, f.min_size * 8,
                                        f.bitfields_count[1])
                THEN /\ parsed_values' = stored
                     /\ pc' = "error"
                     /\ UNCHANGED <<fields, buffer, mode, idx, info>>
                ELSE /\ parsed_values' =
                          Decompose(stored, f.name, v, f.min_size * 8,
                                    f.bitfields_count[1])
                     /\ NextBlock

\* is_dynamic_array: "dpi_error = true" assigns the global dpi_error, and
\* table.insert(error_messages, ...) raises: no generated file ever
\* assigns the global error_messages, so it is nil
Static_Dynamic ==
  /\ pc = "fields" /\ mode = "static"
  /\ UNCHANGED <<genvars, prev>>
  /\ fields[idx].field_type # "bitfield"
  /\ fields[idx].is_dynamic_array
  /\ LET f == fields[idx]
         dynamic_length == SizeFieldValue(f.size_defining_field)
         len_bad == DynamicLengthOutOfRange(dynamic_length.n, f.min_size,
                                            f.max_size)
         short == InsufficientBytes(offset, dynamic_length.n)
         v == Extract(f, offset, dynamic_length.n)
         stored == TableSet(parsed_values, f.name, v)
     IN IF dynamic_length.t # "number"
        THEN LuaError /\ UNCHANGED <<globals, reads>>
        ELSE IF len_bad
        THEN /\ expert' = Append(expert, LengthOutOfRange(f.name))
             /\ globals' = [globals EXCEPT !.dpi_error = TRUE]
             /\ pc' = "error"
             /\ UNCHANGED <<fields, buffer, mode, idx, offset, dpi_error,
                            error_messages, parsed_values, locals, info,
                            reads>>
        ELSE IF short
        THEN /\ expert' = Append(expert, NotEnoughBytes(f.name))
             /\ globals' = [globals EXCEPT !.dpi_error = TRUE]
             /\ pc' = "error"
             /\ UNCHANGED <<fields, buffer, mode, idx, offset, dpi_error,
                            error_messages, parsed_values, locals, info,
                            reads>>
        ELSE /\ TakeRange(offset, dynamic_length.n)
             /\ UNCHANGED <<expert, dpi_error, error_messages, globals>>
             /\ IF v.t = "error"
                THEN /\ pc' = "error"
                     /\ UNCHANGED <<fields, buffer, mode, idx, info, offset,
                                    parsed_values, locals>>
                ELSE /\ locals' = TableSet(locals, f.name, v)
                     /\ offset' = AdvanceOffset(dynamic_length.n)
                     /\ IF ~HasDecomposition(f)
                        THEN parsed_values' = stored /\ NextBlock
                        ELSE IF DecomposeRaises(v, dynamic_length.n * 8,
                                                f.bitfields_count[1])
                        THEN /\ parsed_values' = stored
                             /\ pc' = "error"
                             /\ UNCHANGED <<fields, buffer, mode, idx, info>>
                        ELSE /\ parsed_values' =
                                  Decompose(stored, f.name, v,
                                            dynamic_length.n * 8,
                                            f.bitfields_count[1])
                             /\ NextBlock

\* the report: always the field summary
Static_Report ==
  /\ pc = "report" /\ mode = "static"
  /\ UNCHANGED <<genvars, prev, reads>>
  /\ info' = [set |-> TRUE, str |-> S_Static \o Summary(parsed_values)]
  /\ pc' = "returned"
  /\ UNCHANGED <<fields, buffer, mode, idx, offset, dpi_error,
                 error_messages, parsed_values, locals, expert, globals>>

----------------------------------------------------------------------------
(* 3. The generator run: one per-IP file per member of "dpi", in the       *)
(* order of the JSON text, then the static file from the first member.     *)
(* A file is held as what it was generated from: [kind, ip, fields, port]. *)

MaxEndpoints == 2  \* most members of "dpi"

UDP_PORT == 10000

\* dpi_spec.get("protocol", "CustomProtocol")
protocol == Str(<<"P", "r", "o", "t", "o">>)

\* the keys of "dpi": IP addresses
IPs ==
  {Str(<<"1", "0", ".", "0", ".", "0", ".", "1">>),
   Str(<<"1", "0", ".", "0", ".", "0", ".", "2">>),
   Str(<<"1", "0", ".", "0", ".", "1", ".", "0">>)}

\* the FieldLists the members of "dpi" hold
EndpointFieldLists == {<<F_len>>, ScenarioAFields, ScenarioCFields}

\* the "dpi" objects: up to MaxEndpoints members, no key twice
DpiObjects ==
  {d \in UNION {[1..n -> [ip : IPs, fields : EndpointFieldLists]] :
                  n \in 0..MaxEndpoints} :
     \A i, j \in 1..Len(d) : i # j => d[i].ip # d[j].ip}

\* str.replace(old, new) for one-character old and new
replace(str, old, new) ==
  [i \in 1..Len(str) |-> IF str[i] = old THEN new ELSE str[i]]

\* every per-IP file under the name of the static file
filename_Same(ip) == protocol \o Str(<<".", "l", "u", "a">>)

\* filename = f"{protocol}_for_{ip_clean}.lua"
filename(ip) ==
  protocol \o Str(<<"_", "f", "o", "r", "_">>) \o replace(ip, 46, 95)
    \o Str(<<".", "l", "u", "a">>)

\* static_filename = f"{protocol}.lua"
static_filename == protocol \o Str(<<".", "l", "u", "a">>)

\* one iteration of the per-IP loop: open(filepath, "w") and write
Gen_PerIP ==
  /\ gen_i <= Len(dpi_data)
  /\ files' = TableSet(files, filename(dpi_data[gen_i].ip),
                       [kind |-> "per-IP", ip |-> dpi_data[gen_i].ip,
                        fields |-> dpi_data[gen_i].fields,
                        port |-> UDP_PORT])
  /\ gen_i' = gen_i + 1
  /\ UNCHANGED <<dpi_data, runvars>>

\* if dpi_data: the static file from the first member
Gen_Static ==
  /\ gen_i = Len(dpi_data) + 1
  /\ dpi_data # <<>>
  /\ files' = TableSet(files, static_filename,
                       [kind |-> "static", ip |-> <<>>,
                        fields |-> dpi_data[1].fields, port |-> UDP_PORT])
  /\ gen_i' = gen_i + 1
  /\ UNCHANGED <<dpi_data, runvars>>

----------------------------------------------------------------------------
(* The specification.                                                      *)

Init ==
  /\ \/ fields \in FieldLists \cup TextFieldLists /\ buffer \in Buffers
     \/ fields = ScenarioAFields
          /\ buffer \in {ScenarioABuffer, ScenarioBBuffer} \cup ShortBuffers
     \/ fields = ScenarioCFields /\ buffer = ScenarioCBuffer
     \/ fields = DynamicBitfieldFields
          /\ buffer \in Buffers \cup LengthTwoBuffers
     \/ fields \in {<<F_len, F_val>>, <<F_len, F_data>>}
          /\ buffer \in LengthTwoBuffers
     \/ fields = LongFields /\ buffer \in LongBuffers
     \/ fields = WideFields /\ buffer = WideBuffer
  /\ mode = "dpi"
  /\ pc = "idle"
  /\ idx = 1
  /\ offset = 0
  /\ dpi_error = FALSE
  /\ error_messages = <<>>
  /\ parsed_values = EmptyTable
  /\ locals = EmptyTable
  /\ expert = <<>>
  /\ info = [set |-> FALSE, str |-> <<>>]
  /\ globals = [dpi_error |-> FALSE]
  /\ reads = <<>>
  /\ prev = <<>>
  /\ dpi_data = <<>>
  /\ files = EmptyTable
  /\ gen_i = 1

Next ==
  \/ PerIP_Call
  \/ PerIP_Bitfield
  \/ PerIP_Fixed
  \/ PerIP_Dynamic
  \/ PerIP_Report
  \/ Static_Call
  \/ Static_Bitfield
  \/ Static_Fixed
  \/ Static_Dynamic
  \/ Static_Report

Spec == Init /\ [][Next]_vars

\* the generator run alone: no dissector is invoked
GenInit ==
  /\ dpi_data \in DpiObjects
  /\ files = EmptyTable
  /\ gen_i = 1
  /\ fields = <<>>
  /\ buffer = <<>>
  /\ mode = "dpi"
  /\ pc = "idle"
  /\ idx = 1
  /\ offset = 0
  /\ dpi_error = FALSE
  /\ error_messages = <<>>
  /\ parsed_values = EmptyTable
  /\ locals = EmptyTable
  /\ expert = <<>>
  /\ info = [set |-> FALSE, str |-> <<>>]
  /\ globals = [dpi_error |-> FALSE]
  /\ reads = <<>>
  /\ prev = <<>>

GenNext ==
  \/ Gen_PerIP
  \/ Gen_Static

GenSpec == GenInit /\ [][GenNext]_vars

----------------------------------------------------------------------------
(* The properties.  What a property expects is written out here on its     *)
(* own, from the text of the messages and from arithmetic, and not with    *)
(* the operators the blocks are built from.                                *)

\* "Not enough bytes for "
E_NotEnough ==
  Str(<<"N", "o", "t", " ", "e", "n", "o", "u", "g", "h", " ", "b", "y",
      "t", "e", "s", " ", "f", "o", "r", " ">>)
\* " length out of range"
E_LengthOutOfRange ==
  Str(<<" ", "l", "e", "n", "g", "t", "h", " ", "o", "u", "t", " ", "o",
      "f", " ", "r", "a", "n", "g", "e">>)
\* " out of range"
E_OutOfRange ==
  Str(<<" ", "o", "u", "t", " ", "o", "f", " ", "r", "a", "n", "g", "e">>)
\* "[DPI Error: "
E_DPIError ==
  Str(<<"[", "D", "P", "I", " ", "E", "r", "r", "o", "r", ":", " ">>)
\* "flags=00000111, seq=5"
E_ScenarioASummary ==
  Str(<<"f", "l", "a", "g", "s", "=", "0", "0", "0", "0", "0", "1", "1",
      "1", ",", " ", "s", "e", "q", "=", "5">>)
\* "Bitfield flags expected 3 bits set, got 2"
E_ScenarioBError ==
  Str(<<"B", "i", "t", "f", "i", "e", "l", "d", " ", "f", "l", "a", "g",
      "s", " ", "e", "x", "p", "e", "c", "t", "e", "d", " ", "3", " ", "b",
      "i", "t", "s", " ", "s", "e", "t", ",", " ", "g", "o", "t", " ",
      "2">>)
\* "Bitfield "
E_Bitfield ==
  Str(<<"B", "i", "t", "f", "i", "e", "l", "d", " ">>)
\* " expected "
E_Expected ==
  Str(<<" ", "e", "x", "p", "e", "c", "t", "e", "d", " ">>)
\* " bits set, got "
E_BitsSetGot ==
  Str(<<" ", "b", "i", "t", "s", " ", "s", "e", "t", ",", " ", "g", "o",
      "t", " ">>)

\* a < b in byte order: at the first position where they differ a is
\* smaller, or a ends there
LexLess(a, b) ==
  \E k \in 1..Len(b) :
    /\ \A j \in 1..(k - 1) : j <= Len(a) /\ a[j] = b[j]
    /\ (k > Len(a) \/ a[k] < b[k])

\* the ascending arrangement of a set of strings: the i-th is the one with
\* i - 1 smaller ones
Ascending(P) ==
  [i \in 1..Cardinality(P) |->
     CHOOSE p \in P : Cardinality({q \in P : LexLess(q, p)}) = i - 1]

\* the strings of a list with sep between neighbours
RECURSIVE Joined(_, _)
Joined(list, sep) ==
  IF Len(list) = 0 THEN <<>>
  ELSE IF Len(list) = 1 THEN list[1]
  ELSE Joined(SubSeq(list, 1, Len(list) - 1), sep) \o sep \o list[Len(list)]

\* the "name=value" strings of a table
Pairs(table) == {k \o Str(<<"=">>) \o tostring(table[k]) : k \in DOMAIN table}

\* the unsigned value of bytes, first byte most significant
RECURSIVE Unsigned(_, _)
Unsigned(bytes, acc) ==
  IF bytes = <<>> THEN acc ELSE Unsigned(Tail(bytes), acc * 256 + Head(bytes))

\* the value a string of "0"/"1" digits denotes, first digit most
\* significant
RECURSIVE BinaryValue(_, _)
BinaryValue(digits, acc) ==
  IF digits = <<>> THEN acc
  ELSE BinaryValue(Tail(digits), acc * 2 + (Head(digits) - 48))

\* the messages error_messages gained in a step
Gained == SubSeq(error_messages', Len(error_messages) + 1, Len(error_messages'))

\* the block about to run is the one of a scalar or text field with
\* is_dynamic_array, resp. without
AtDynamic ==
  /\ pc = "fields"
  /\ fields[idx].field_type # "bitfield"
  /\ fields[idx].is_dynamic_array

AtFixed ==
  /\ pc = "fields"
  /\ fields[idx].field_type # "bitfield"
  /\ ~fields[idx].is_dynamic_array

AtBitfield == pc = "fields" /\ fields[idx].field_type = "bitfield"

\* the step processed its field: control went on to the next block
Processed == pc' \in {"fields", "report"} /\ idx' = idx + 1

\* every dynamic field is sized by an earlier fixed integer field, as the
\* data model requires
WellFormed(fs) ==
  \A i \in 1..Len(fs) :
    (fs[i].field_type # "bitfield" /\ fs[i].is_dynamic_array) =>
      \E j \in 1..(i - 1) :
        /\ fs[j].name = fs[i].size_defining_field
        /\ fs[j].field_type \in {"int", "bool", "long"}
        /\ ~fs[j].is_dynamic_array

\* the length the block about to run resolves for its field (WellFormed
\* lists)
ResolvedLength ==
  IF fields[idx].field_type # "bitfield" /\ fields[idx].is_dynamic_array
  THEN locals[fields[idx].size_defining_field].n
  ELSE fields[idx].min_size

\* C1: in the per-IP dissector a field block stops the pass if and only if
\* the buffer is too short for the field's resolved length (buffer length <
\* offset + length); when it stops, nothing more is stored; in every other
\* case, whatever errors the block records, control goes on to the next
\* block.
C1_OnlyInsufficientBytesStops ==
  [][(mode = "dpi" /\ pc = "fields" /\ WellFormed(fields)) =>
       IF Len(buffer) < offset + ResolvedLength
       THEN pc' = "returned" /\ parsed_values' = parsed_values
       ELSE Processed]_vars

\* C2: a per-IP decode of a buffer shorter than the first field's length
\* ends with the error list holding exactly "Not enough bytes for <field>"
\* and with no value stored.  Stated for the non-empty buffers: the empty
\* one never reaches the first block (Prologue).
C2_ShortBufferOneError ==
  (/\ mode = "dpi" /\ pc \in {"returned", "error"}
   /\ ~fields[1].is_dynamic_array
   /\ 0 < Len(buffer) /\ Len(buffer) < fields[1].min_size)
  => /\ error_messages = <<E_NotEnough \o fields[1].name>>
     /\ DOMAIN parsed_values = {}

\* C3: every per-IP invocation that returns has reported: the Info column
\* is set, to the aggregated "[DPI Error: ...]" message when at least one
\* error was accumulated (the insufficient-bytes error included), to the
\* field summary when none was.  Stated for the invocations that entered
\* the field blocks (non-empty buffer).
C3_AlwaysReports ==
  (mode = "dpi" /\ pc = "returned" /\ Len(buffer) > 0) =>
    /\ info.set
    /\ info.str =
         IF error_messages # <<>>
         THEN E_DPIError \o Joined(error_messages, Str(<<";", " ">>))
                \o Str(<<"]">>)
         ELSE Joined(Ascending(Pairs(parsed_values)), Str(<<",", " ">>))

\* C4: the Info column a per-IP pass sets in its report block is
\* "[DPI Error: " .. the error messages in the order appended, joined with
\* "; " .. "]" when the error list is not empty, and else the "name=value"
\* strings of all stored values (name_bf<i> entries included) in ascending
\* string order joined with ", "; Scenario A reports "flags=00000111, seq=5".
C4_ReportFormat ==
  /\ (mode = "dpi" /\ info.set) =>
       info.str =
         IF error_messages # <<>>
         THEN E_DPIError \o Joined(error_messages, Str(<<";", " ">>))
                \o Str(<<"]">>)
         ELSE Joined(Ascending(Pairs(parsed_values)), Str(<<",", " ">>))
  /\ (/\ mode = "dpi" /\ pc = "returned"
      /\ fields = ScenarioAFields /\ buffer = ScenarioABuffer)
     => info = [set |-> TRUE, str |-> E_ScenarioASummary]

\* C4 witness: Scenario A has been decoded and reported
C4_ScenarioAReported ==
  /\ mode = "dpi" /\ pc = "returned"
  /\ fields = ScenarioAFields /\ buffer = ScenarioABuffer
  /\ error_messages = <<>>
  /\ info.set

\* C5: a per-IP dynamic block whose length is outside [min_size, max_size]
\* appends "<field> length out of range" and goes on with that length: if
\* the buffer is too short for it, "Not enough bytes for <field>" is
\* appended after it and the pass stops; else the field is read with that
\* length, stored, the offset advances by it and control goes on.
C5_LengthOutOfRangeContinues ==
  [][(/\ mode = "dpi" /\ AtDynamic /\ WellFormed(fields)
      /\ (ResolvedLength < fields[idx].min_size
            \/ ResolvedLength > fields[idx].max_size))
     => LET f == fields[idx]
            lor == f.name \o E_LengthOutOfRange
        IN IF Len(buffer) < offset + ResolvedLength
           THEN /\ Gained = <<lor, E_NotEnough \o f.name>>
                /\ pc' = "returned"
                /\ parsed_values' = parsed_values
           ELSE /\ Gained = <<lor>>
                /\ Processed
                /\ f.name \in DOMAIN parsed_values'
                /\ offset' = offset + ResolvedLength]_vars

\* C6: a per-IP block that processes a numeric field declaring min_value
\* and max_value, fixed or dynamic, appends "<field> out of range" if and
\* only if the stored value is below min_value or above max_value.
C6_RangeErrorIffOutOfRange ==
  [][(/\ mode = "dpi" /\ (AtFixed \/ AtDynamic) /\ Processed
      /\ fields[idx].field_type \in {"int", "bool", "long"}
      /\ fields[idx].min_value # <<>> /\ fields[idx].max_value # <<>>)
     => LET f == fields[idx]
            v == parsed_values'[f.name].n
        IN (\E k \in 1..Len(Gained) : Gained[k] = f.name \o E_OutOfRange)
             <=> (v < f.min_value[1] \/ v > f.max_value[1])]_vars

C8_SubValuesStored ==
  \A i \in 1..Len(fields) :
    LET f == fields[i]
        N == f.bitfields_count[1]
        W == IF f.is_dynamic_array
             THEN locals[f.size_defining_field].n ELSE f.min_size
        b == (W * 8) \div N
        sub(j) == parsed_values[f.name \o Str(<<"_", "b", "f">>) \o Digits(j)]
        RECURSIVE Recombined(_)
        Recombined(j) ==
          IF j = 0 THEN sub(0).n ELSE Recombined(j - 1) * (2 ^ b) + sub(j).n
    IN (/\ f.field_type # "bitfield"
        /\ f.bitfields_count # <<>> /\ f.bitfields_count[1] > 0
        /\ f.name \in DOMAIN parsed_values)
       => /\ \A j \in 0..(N - 1) :
               /\ f.name \o Str(<<"_", "b", "f">>) \o Digits(j)
                    \in DOMAIN parsed_values
               /\ sub(j).n \in 0..((2 ^ b) - 1)
          /\ ((W * 8) % N = 0) => Recombined(N - 1) = parsed_values[f.name].n

\* C9: the static dissector flags nothing but the structural checks: every
\* expert info it adds is "Not enough bytes for <field>" or
\* "<field> length out of range", never a bit-population or range finding.
C9_StaticNoBitPopulationCheck ==
  mode = "static" =>
    \A k \in 1..Len(expert) :
      \E i \in 1..Len(fields) :
        \/ expert[k] = E_NotEnough \o fields[i].name
        \/ expert[k] = fields[i].name \o E_LengthOutOfRange

\* C10: no Lua error escapes a dissector function; in particular the
\* dynamic block of the static dissector never raises, whether the length
\* is out of range or the buffer too short for it.
C10_NoLuaError ==
  [][(mode = "static" /\ AtDynamic /\ WellFormed(fields)) => pc' # "error"]_vars

----------------------------------------------------------------------------
(* The properties of repeated invocations, of the generator and of the     *)
(* two dissectors side by side.                                            *)

\* the invocation has ended, by a return or by a Lua error
Finished == pc \in {"returned", "error"}

\* C11: an invocation writes nothing that outlives it: the global
\* environment stays as it was before the first invocation (no global
\* dpi_error), in per-IP and in static mode, and a per-IP decode that
\* follows a per-IP decode of the same buffer ends with the same values and
\* the same errors.
C11_NoStateOutlivesInvocation ==
  /\ globals.dpi_error = FALSE
  /\ (mode = "dpi" /\ Finished /\ prev # <<>>) =>
       /\ parsed_values = prev[1].parsed_values
       /\ error_messages = prev[1].error_messages

\* the generator run is over: the loop and the static part have run
Generated == gen_i = Len(dpi_data) + 2

\* C12: after a run on n >= 1 endpoints the output directory holds n + 1
\* files: for every endpoint one per-IP file generated from that endpoint's
\* fields, and exactly one static file, generated from the fields of the
\* first endpoint; all of them register on one and the same port.
C12_OneArtifactPerEndpointPlusStatic ==
  (Generated /\ Len(dpi_data) >= 1) =>
    LET names == DOMAIN files
        statics == {x \in names : files[x].kind = "static"}
    IN /\ Cardinality(names) = Len(dpi_data) + 1
       /\ \A k \in 1..Len(dpi_data) :
            \E x \in names :
              /\ files[x].kind = "per-IP"
              /\ files[x].ip = dpi_data[k].ip
              /\ files[x].fields = dpi_data[k].fields
       /\ Cardinality(statics) = 1
       /\ \A x \in statics : files[x].fields = dpi_data[1].fields
       /\ \A x, y \in names : files[x].port = files[y].port

\* C12 witness: a run on two endpoints with different fields is over
C12_TwoEndpointsGenerated ==
  /\ Generated
  /\ Len(dpi_data) = 2
  /\ dpi_data[1].fields # dpi_data[2].fields
  /\ Cardinality(DOMAIN files) = 3

\* every field declared as a dynamic array, whatever its type, is sized by
\* an earlier fixed integer field
WellSized(fs) ==
  \A i \in 1..Len(fs) :
    fs[i].is_dynamic_array =>
      \E j \in 1..(i - 1) :
        /\ fs[j].name = fs[i].size_defining_field
        /\ fs[j].field_type \in {"int", "bool", "long"}
        /\ ~fs[j].is_dynamic_array

\* the length the data model resolves for the field of the block about to
\* run: min_size, or for a dynamic array the value stored for its
\* size_defining_field
DeclaredLength ==
  IF fields[idx].is_dynamic_array
  THEN parsed_values[fields[idx].size_defining_field].n
  ELSE fields[idx].min_size

\* C13: a per-IP block that does not raise works with the resolved length
\* L of its field, of whatever type (min_size, or for a dynamic array the
\* value stored for size_defining_field): it returns without reading when
\* the buffer is shorter than offset + L, and else it takes the range
\* (offset, L) and advances the offset by L.  Scenario C reads len and then
\* exactly the three bytes "abc", with no error.
C13_ResolvedLengthUsed ==
  /\ [][(mode = "dpi" /\ pc = "fields" /\ WellSized(fields) /\ pc' # "error")
        => IF Len(buffer) < offset + DeclaredLength
           THEN pc' = "returned" /\ reads' = reads
           ELSE /\ reads' = Append(reads, [offset |-> offset,
                                           length |-> DeclaredLength])
                /\ offset' = offset + DeclaredLength]_vars
  /\ [](/\ mode = "dpi" /\ pc = "returned"
        /\ fields = ScenarioCFields /\ buffer = ScenarioCBuffer
        => /\ parsed_values[N_payload].s = <<97, 98, 99>>
           /\ reads = <<[offset |-> 0, length |-> 1],
                        [offset |-> 1, length |-> 3]>>
           /\ error_messages = <<>>)

Signed32(bytes) ==
  IF Len(bytes) = 4 /\ bytes[1] >= 128
  THEN (bytes[1] - 256) * 16777216 + Unsigned(Tail(bytes), 0)
  ELSE Unsigned(bytes, 0)

\* C15: a stored long field of 8 bytes is declared uint64 and holds the
\* unsigned 64-bit value of its bytes; a stored long field of any other
\* size is declared int32 and holds the signed 32-bit value of its bytes,
\* negative when four bytes have the top bit set.
C15_LongSignedUnlessEightBytes ==
  \A i \in 1..Len(fields) :
    (/\ fields[i].field_type = "long"
     /\ ~fields[i].is_dynamic_array
     /\ fields[i].name \in DOMAIN parsed_values
     /\ i <= Len(reads))
    => LET f == fields[i]
           v == parsed_values[f.name]
           bytes == SubSeq(buffer, reads[i].offset + 1,
                           reads[i].offset + reads[i].length)
       IN IF f.min_size = 8
          THEN /\ ProtoFieldType(f) = "uint64"
               /\ v.t = "uint64"
               /\ v.n = Unsigned(bytes, 0)
          ELSE /\ ProtoFieldType(f) = "int32"
               /\ v.t = "number"
               /\ v.hi = 0
               /\ v.n = Signed32(bytes)

\* a is an initial part of b
StartsWith(b, a) == Len(a) <= Len(b) /\ SubSeq(b, 1, Len(a)) = a

\* the stored name x belongs to the field f: its own name, or one of its
\* sub-value names
NameOf(f, x) ==
  \/ x = f.name
  \/ /\ f.bitfields_count # <<>>
     /\ \E i \in 0..(f.bitfields_count[1] - 1) :
          x = f.name \o Str(<<"_", "b", "f">>) \o Digits(i)

\* the error message msg is about the field f
MessageOf(f, msg) ==
  \/ msg = E_NotEnough \o f.name
  \/ msg = f.name \o E_LengthOutOfRange
  \/ msg = f.name \o E_OutOfRange
  \/ StartsWith(msg, E_Bitfield \o f.name \o E_Expected)

\* C16: fields are decoded in declaration order and deterministically: at
\* every point of an invocation every field before the current block is
\* stored and nothing is stored or reported for a field after it; the
\* error list is ordered by declaration order; and a per-IP decode that
\* follows a per-IP decode of the same buffer against the same FieldList
\* ends in the same way with identical values and identical errors.
C16_DeclarationOrderDeterministic ==
  LET n == Len(fields)
      last == IF idx <= n THEN idx ELSE n
  IN /\ \A j \in 1..n : j < idx => fields[j].name \in DOMAIN parsed_values
     /\ \A x \in DOMAIN parsed_values :
          \E j \in 1..last : NameOf(fields[j], x)
     /\ \A k \in 1..Len(error_messages) :
          \E j \in 1..last : MessageOf(fields[j], error_messages[k])
     /\ \A k, l \in 1..Len(error_messages) :
          k < l => \E i, j \in 1..n :
                     /\ i <= j
                     /\ MessageOf(fields[i], error_messages[k])
                     /\ MessageOf(fields[j], error_messages[l])
     /\ (mode = "dpi" /\ Finished /\ prev # <<>>) =>
          /\ pc = prev[1].pc
          /\ idx = prev[1].idx
          /\ parsed_values = prev[1].parsed_values
          /\ error_messages = prev[1].error_messages

\* C16 witness: a second per-IP decode in a row has ended with two errors,
\* the one of the first field before the one of the second
C16_TwoErrorsInOrderTwice ==
  /\ mode = "dpi" /\ pc = "returned" /\ prev # <<>>
  /\ fields = <<F_id, F_flags>>
  /\ Len(error_messages) = 2
  /\ error_messages[1] = N_id \o E_OutOfRange
  /\ StartsWith(error_messages[2], E_Bitfield \o N_flags)

\* C17: no block reads outside the buffer: every range a per-IP or static
\* invocation has taken starts at an offset >= 0, has a length >= 0 and
\* ends at or before the end of the buffer, also when the length of a
\* dynamic field was reported out of range.
C17_ReadsInsideBuffer ==
  \A k \in 1..Len(reads) :
    /\ reads[k].offset >= 0
    /\ reads[k].length >= 0
    /\ reads[k].offset + reads[k].length <= Len(buffer)

\* C17 witness: a per-IP pass has read a dynamic field of two bytes whose
\* length it reported out of range
C17_OverlongFieldRead ==
  /\ mode = "dpi" /\ pc = "returned"
  /\ fields = <<F_len, F_data>>
  /\ error_messages = <<N_data \o E_LengthOutOfRange>>
  /\ reads = <<[offset |-> 0, length |-> 1], [offset |-> 1, length |-> 2]>>
  /\ N_data \in DOMAIN parsed_values

\* C18: in the per-IP dissector the flag dpi_error is set if and only if
\* error_messages is not empty, between any two blocks and at the end of
\* the invocation, so the report branches as the error list calls for.
C18_FlagIffErrors ==
  mode = "dpi" => (dpi_error <=> error_messages # <<>>)

\* C18 witness: a per-IP pass has reported with the flag set and one
\* error in the list
C18_FlagSetWithError ==
  /\ mode = "dpi" /\ pc = "returned" /\ info.set
  /\ dpi_error
  /\ Len(error_messages) = 1

\* C19: the static dissector agrees structurally with the per-IP dissector
\* generated from the same fields: a static decode that follows a per-IP
\* decode of the same buffer has taken the same ranges in the same order,
\* has stored the same names with the same values, and has stopped at the
\* same block with the same offset.
C19_StaticAgreesWithPerIP ==
  (mode = "static" /\ Finished /\ prev # <<>>) =>
    /\ reads = prev[1].reads
    /\ parsed_values = prev[1].parsed_values
    /\ idx = prev[1].idx
    /\ offset = prev[1].offset

====
